---- MODULE Spec2Model ----
(***************************************************************************)
(* Model of app.py: the Streamlit script of the Whisper transcription      *)
(* tool.  One script run is one execution of main(); a transcription       *)
(* request is the part of a run guarded by the "start" button.             *)
(* Times are integers in milliseconds (the resolution of a "%.3f" field).  *)
(***************************************************************************)
EXTENDS Integers, Sequences, FiniteSets, TLC

VARIABLES
    pc,                \* position of the script run inside main()
    ffmpeg_status,     \* exit status of the ffmpeg probe of this run
    rendered,          \* the widgets the current page shows
    model_option,      \* sidebar selectbox: model size
    language_option,   \* sidebar selectbox: language ("" is auto-detect)
    uploaded_file,     \* file_uploader value, None when empty
    transcribe_button, \* TRUE only in the run a click of the button triggered
    model_cache,       \* st.cache_resource store of load_whisper_model
    load_calls,        \* per model size, how often whisper.load_model ran
    files,             \* the temp files that exist on disk
    n_requests,        \* number of requests started in this process
    temp_filename,     \* name of the temp file of the current request
    model,             \* the model instance the request resolved
    exc,               \* the exception in flight, None when there is none
    result,            \* what model.transcribe returned
    trace,             \* what the current request has done so far, in order
    messages,          \* the st.error / st.success boxes of this run
    seg_i,             \* number of segments the format loop has handled
    table_data,        \* rows of the timestamp table
    timestamp_text,    \* the timestamped transcript
    outcome,           \* how the request of this run ended
    in_flight          \* the requests begun and not yet ended

vars == <<pc, ffmpeg_status, rendered, model_option, language_option,
          uploaded_file, transcribe_button, model_cache, load_calls, files,
          n_requests, temp_filename, model, exc, result, trace, messages,
          seg_i, table_data, timestamp_text, outcome, in_flight>>

None == "None"

\* ffmpeg_status before the probe of a run has been made
NotProbed == 0 - 1

\* What os.system returns for the probe: 0 when ffmpeg answers, the shell's
\* "not found" status otherwise (1 from cmd.exe, 127 << 8 from sh).
ExitStatuses == {0, 1, 32512}

----------------------------------------------------------------------------
(* Bounds of the model. *)

MaxRequests == 3      \* button clicks explored per process
MaxModels == 3        \* how many of the model sizes the user picks among
MaxLanguages == 3     \* how many of the languages the user picks among
MaxHours == 1         \* largest hour field among the timestamps tried
MaxSegments == 2      \* longest segment list tried by the formatting runs

----------------------------------------------------------------------------
(* Text helpers: Python's str() of an int and a zero-padded field. *)

Digits == <<"0", "1", "2", "3", "4", "5", "6", "7", "8", "9">>

RECURSIVE ToDecimal(_)
ToDecimal(n) ==
    IF n < 10 THEN Digits[n + 1]
    ELSE ToDecimal(n \div 10) \o Digits[(n % 10) + 1]

RECURSIVE ZeroPad(_, _)
ZeroPad(str, width) ==
    IF Len(str) >= width THEN str ELSE ZeroPad("0" \o str, width)

\* divmod(a, b) for a >= 0, b > 0
divmod(a, b) == <<a \div b, a % b>>

\* "{s:06.3f}" of a seconds value given in milliseconds: three decimals,
\* zero-padded to a total width of six.
FormatSeconds(s_ms) ==
    ZeroPad(ToDecimal(s_ms \div 1000) \o "." \o ZeroPad(ToDecimal(s_ms % 1000), 3), 6)

\* format_timestamp with the minutes not reduced modulo 60
format_timestamp_NoMinuteWrap(ms) ==
    LET ms1 == divmod(ms, 60 * 1000)
        m0  == ms1[1]
        s   == ms1[2]
        h   == m0 \div 60
    IN  ZeroPad(ToDecimal(h), 2) \o ":" \o ZeroPad(ToDecimal(m0), 2) \o ":" \o FormatSeconds(s)

\* format_timestamp(seconds), seconds given in milliseconds
format_timestamp(ms) ==
    LET ms1 == divmod(ms, 60 * 1000)
        m0  == ms1[1]
        s   == ms1[2]
        hm  == divmod(m0, 60)
        h   == hm[1]
        m   == hm[2]
    IN  ZeroPad(ToDecimal(h), 2) \o ":" \o ZeroPad(ToDecimal(m), 2) \o ":" \o FormatSeconds(s)

\* f"[{start_fmt} --> {end_fmt}] {text}\n"
FormatLine(start_fmt, end_fmt, text) ==
    "[" \o start_fmt \o " --> " \o end_fmt \o "] " \o text \o "\n"

----------------------------------------------------------------------------
(* The option lists of the page and the values the environment supplies. *)

\* get_available_models()
get_available_models == <<"tiny", "base", "small", "medium", "large">>

\* options of the language selectbox; "" is shown as auto-detect
language_options == <<"", "ja", "en", "zh", "de", "fr", "es", "ko", "ru">>

\* type= of st.file_uploader
supported_types == {"mp3", "wav", "m4a", "ogg", "flac", "mp4", "mov", "mkv", "webm"}

UpperCase == "ABCDEFGHIJKLMNOPQRSTUVWXYZ"
LowerCase == "abcdefghijklmnopqrstuvwxyz"

\* str.lower() of one character
LowerChar(c) ==
    IF \E i \in 1..Len(UpperCase) : SubSeq(UpperCase, i, i) = c
    THEN LET i == CHOOSE k \in 1..Len(UpperCase) : SubSeq(UpperCase, k, k) = c
         IN  SubSeq(LowerCase, i, i)
    ELSE c

RECURSIVE Lower(_)
Lower(str) ==
    IF str = "" THEN "" ELSE LowerChar(SubSeq(str, 1, 1)) \o Lower(SubSeq(str, 2, Len(str)))

\* name.split('.')[-1]: what follows the last dot, the whole name without one
RECURSIVE LastPart(_)
LastPart(name) ==
    IF \E i \in 1..Len(name) : SubSeq(name, i, i) = "."
    THEN LET i == CHOOSE k \in 1..Len(name) : SubSeq(name, k, k) = "."
         IN  LastPart(SubSeq(name, i + 1, Len(name)))
    ELSE name

\* uploaded_file.name.split('.')[-1].lower()
file_ext(name) == Lower(LastPart(name))

NoFile == [name |-> None, data |-> ""]
NoModel == [size |-> None, serial |-> 0]
NoResult == [text |-> None, segments |-> <<>>]

\* The files a user uploads: the uploader only lets supported types through.
Uploads ==
    {u \in {[name |-> "talk.mp3", data |-> "ID3"],
            [name |-> "my.clip.MP4", data |-> "ftyp"]} :
        file_ext(u.name) \in supported_types}

\* Models and languages the user picks during the runs explored.
Min(a, b) == IF a < b THEN a ELSE b
Models == {get_available_models[i] : i \in 1..Min(MaxModels, Len(get_available_models))}
Languages == {language_options[i] : i \in 1..Min(MaxLanguages, Len(language_options))}

\* Error texts of the exceptions the external library raises.
LoadErrors == {"CUDA out of memory", "checksum does not match"}
TranscribeErrors == {"Failed to load audio"}
DisplayErrors == {"'segments'"}

Seg(s, e, t) == [start |-> s, end |-> e, text |-> t]

\* What model.transcribe returns in the request runs.
Results ==
    {[text |-> "", segments |-> <<>>],
     [text |-> "ab", segments |-> <<Seg(0, 1000, "a"), Seg(1000, 2500, "b")>>]}

----------------------------------------------------------------------------
(* State of the process before the first browser connection. *)

Init ==
    /\ pc = "idle"
    /\ ffmpeg_status = NotProbed
    /\ rendered = {}
    /\ model_option = get_available_models[2]
    /\ language_option = language_options[2]
    /\ uploaded_file = NoFile
    /\ transcribe_button = FALSE
    /\ model_cache = [m \in Models |-> NoModel]
    /\ load_calls = [m \in Models |-> 0]
    /\ files = {}
    /\ n_requests = 0
    /\ temp_filename = None
    /\ model = NoModel
    /\ exc = None
    /\ result = NoResult
    /\ trace = <<>>
    /\ messages = <<>>
    /\ seg_i = 0
    /\ table_data = <<>>
    /\ timestamp_text = ""
    /\ outcome = "none"
    /\ in_flight = {}

FileNames == {f.name : f \in files}

\* os.path.exists(path)
exists(path) == path \in FileNames

\* One step of a request, as recorded in trace.
Event(op, kwargs) == [op |-> op, exists |-> exists(temp_filename), kwargs |-> kwargs]

\* An exception with text e leaves the statement that raised it.
Raise(e) == Event("raise", {<<"message", e>>})

Ops == [i \in 1..Len(trace) |-> trace[i].op]

----------------------------------------------------------------------------
(* User interactions.  Each one makes Streamlit run the script from the    *)
(* top; the values of the previous run are gone.                            *)

StartRun ==
    /\ pc = "idle"
    /\ pc' = "check_ffmpeg"
    /\ ffmpeg_status' = NotProbed
    /\ temp_filename' = None
    /\ model' = NoModel
    /\ exc' = None
    /\ result' = NoResult
    /\ trace' = <<>>
    /\ messages' = <<>>
    /\ seg_i' = 0
    /\ table_data' = <<>>
    /\ timestamp_text' = ""
    /\ outcome' = "none"
    /\ UNCHANGED <<rendered, model_cache, load_calls, files, n_requests, in_flight>>

\* The browser opens or reloads the page: a new session with the widgets'
\* default values (index=1 of both selectboxes, no file).
OpenPage ==
    /\ StartRun
    /\ model_option' = get_available_models[2]
    /\ language_option' = language_options[2]
    /\ uploaded_file' = NoFile
    /\ transcribe_button' = FALSE

SelectModel ==
    /\ StartRun
    /\ "model_option" \in rendered
    /\ \E m \in Models \ {model_option} : model_option' = m
    /\ transcribe_button' = FALSE
    /\ UNCHANGED <<language_option, uploaded_file>>

SelectLanguage ==
    /\ StartRun
    /\ "language_option" \in rendered
    /\ \E l \in Languages \ {language_option} : language_option' = l
    /\ transcribe_button' = FALSE
    /\ UNCHANGED <<model_option, uploaded_file>>

UploadFile ==
    /\ StartRun
    /\ "uploaded_file" \in rendered
    /\ \E u \in (Uploads \cup {NoFile}) \ {uploaded_file} : uploaded_file' = u
    /\ transcribe_button' = FALSE
    /\ UNCHANGED <<model_option, language_option>>

ClickTranscribe ==
    /\ StartRun
    /\ "transcribe_button" \in rendered
    /\ n_requests < MaxRequests
    /\ transcribe_button' = TRUE
    /\ UNCHANGED <<model_option, language_option, uploaded_file>>

----------------------------------------------------------------------------
(* The script run: main(). *)

\* The texts of the message boxes, which are Japanese in the source, in
\* ASCII: the prefix of the except handler's st.error and check_ffmpeg's.
ErrorPrefix == "Error occurred: "
FfmpegMessage == "FFmpeg is not installed."

\* check_ffmpeg() without st.stop(): the error is shown and the run goes on
check_ffmpeg_NoStop ==
    /\ pc = "check_ffmpeg"
    /\ \E status \in ExitStatuses :
        /\ ffmpeg_status' = status
        /\ messages' = IF status # 0
                       THEN Append(messages, [kind |-> "error", text |-> FfmpegMessage])
                       ELSE messages
    /\ pc' = "render"
    /\ UNCHANGED <<rendered, model_option, language_option, uploaded_file,
                   transcribe_button, model_cache, load_calls, files, n_requests,
                   temp_filename, model, exc, result, trace, seg_i, table_data,
                   timestamp_text, outcome, in_flight>>

\* check_ffmpeg(): a non-zero exit status of the probe shows an error and
\* st.stop() ends the run; nothing after it is rendered.
check_ffmpeg ==
    /\ pc = "check_ffmpeg"
    /\ \E status \in ExitStatuses :
        /\ ffmpeg_status' = status
        /\ IF status # 0
           THEN /\ messages' = Append(messages, [kind |-> "error", text |-> FfmpegMessage])
                /\ rendered' = {}
                /\ pc' = "idle"
           ELSE /\ pc' = "render"
                /\ UNCHANGED <<messages, rendered>>
    /\ UNCHANGED <<model_option, language_option, uploaded_file, transcribe_button,
                   model_cache, load_calls, files, n_requests, temp_filename, model,
                   exc, result, trace, seg_i, table_data, timestamp_text, outcome,
                   in_flight>>

\* Sidebar, uploader, preview and button; a click on an uploaded file begins
\* a request.
Render ==
    /\ pc = "render"
    /\ rendered' = {"model_option", "language_option", "uploaded_file"}
                     \cup (IF uploaded_file # NoFile THEN {"transcribe_button"} ELSE {})
    /\ IF uploaded_file # NoFile /\ transcribe_button
       THEN /\ pc' = "persist"
            /\ n_requests' = n_requests + 1
            /\ in_flight' = in_flight \cup {n_requests + 1}
       ELSE /\ pc' = "idle"
            /\ UNCHANGED <<n_requests, in_flight>>
    /\ UNCHANGED <<ffmpeg_status, model_option, language_option, uploaded_file,
                   transcribe_button, model_cache, load_calls, files, temp_filename,
                   model, exc, result, trace, messages, seg_i, table_data,
                   timestamp_text, outcome>>

\* tempfile's unique name for this request, with the upload's extension
TempName == "tmp" \o ToDecimal(n_requests) \o "." \o file_ext(uploaded_file.name)

\* NamedTemporaryFile with its default delete=True: closing the file at the
\* end of the with block removes it
Persist_DeleteOnClose ==
    /\ pc = "persist"
    /\ temp_filename' = TempName
    /\ trace' = Append(trace, [op |-> "persist", exists |-> TRUE, kwargs |-> {}])
    /\ pc' = "acquire"
    /\ UNCHANGED <<ffmpeg_status, rendered, model_option, language_option,
                   uploaded_file, transcribe_button, model_cache, load_calls, files,
                   n_requests, model, exc, result, messages, seg_i, table_data,
                   timestamp_text, outcome, in_flight>>

\* with tempfile.NamedTemporaryFile(delete=False, suffix=...) as tmp_file:
\* the file stays on disk when the with block closes it.  The block is
\* outside the try: an OSError of the write leaves the run uncaught, with
\* the partly written file on disk.
Persist ==
    /\ pc = "persist"
    /\ \/ /\ files' = files \cup {[name |-> TempName, data |-> uploaded_file.data, complete |-> TRUE]}
          /\ temp_filename' = TempName
          /\ trace' = Append(trace, [op |-> "persist", exists |-> TRUE, kwargs |-> {}])
          /\ pc' = "acquire"
          /\ UNCHANGED <<exc, outcome, in_flight>>
       \/ /\ files' = files \cup {[name |-> TempName, data |-> "", complete |-> FALSE]}
          /\ exc' = "No space left on device"
          /\ outcome' = "persist_failed"
          /\ in_flight' = in_flight \ {n_requests}
          /\ pc' = "idle"
          /\ UNCHANGED <<temp_filename, trace>>
    /\ UNCHANGED <<ffmpeg_status, rendered, model_option, language_option,
                   uploaded_file, transcribe_button, model_cache, load_calls,
                   n_requests, model, result, messages, seg_i, table_data,
                   timestamp_text>>

\* whisper.load_model's instance for a size: a new object at every load
NewInstance(size) == [size |-> size, serial |-> load_calls[size] + 1]

\* load_whisper_model without the cache decorator: every call loads
AcquireModel_Uncached ==
    /\ pc = "acquire"
    /\ load_calls' = [load_calls EXCEPT ![model_option] = @ + 1]
    /\ model' = NewInstance(model_option)
    /\ model_cache' = [model_cache EXCEPT ![model_option] = NewInstance(model_option)]
    /\ trace' = trace \o <<Event("load", {}), Event("resolved", {})>>
    /\ pc' = "transcribe"
    /\ UNCHANGED <<ffmpeg_status, rendered, model_option, language_option,
                   uploaded_file, transcribe_button, files, n_requests,
                   temp_filename, exc, result, messages, seg_i, table_data,
                   timestamp_text, outcome, in_flight>>

\* model = load_whisper_model(model_option), under @st.cache_resource: a
\* stored instance is returned without running the body; otherwise the body
\* runs, and its return value is stored, an exception is not.
AcquireModel ==
    /\ pc = "acquire"
    /\ IF model_cache[model_option] # NoModel
       THEN /\ model' = model_cache[model_option]
            /\ trace' = Append(trace, Event("resolved", {}))
            /\ pc' = "transcribe"
            /\ UNCHANGED <<model_cache, load_calls, exc, outcome>>
       ELSE /\ load_calls' = [load_calls EXCEPT ![model_option] = @ + 1]
            /\ \/ /\ model' = NewInstance(model_option)
                  /\ model_cache' = [model_cache EXCEPT ![model_option] = NewInstance(model_option)]
                  /\ trace' = trace \o <<Event("load", {}), Event("resolved", {})>>
                  /\ pc' = "transcribe"
                  /\ UNCHANGED <<exc, outcome>>
               \/ /\ \E e \in LoadErrors :
                        /\ exc' = e
                        /\ trace' = trace \o <<Event("load", {}), Raise(e)>>
                  /\ outcome' = "load_failed"
                  /\ pc' = "except"
                  /\ UNCHANGED <<model, model_cache>>
    /\ UNCHANGED <<ffmpeg_status, rendered, model_option, language_option,
                   uploaded_file, transcribe_button, files, n_requests,
                   temp_filename, result, messages, seg_i, table_data,
                   timestamp_text, in_flight>>

\* options["language"] = language_option without the if
TranscribeOptions_Always == {<<"language", language_option>>}

\* options = {}; if language_option: options["language"] = language_option
TranscribeOptions ==
    IF language_option # "" THEN {<<"language", language_option>>} ELSE {}

\* st.success's text (Japanese, with the timings, in the source)
SuccessMessage == "Done"

\* result = model.transcribe(temp_filename, **options), then the success box
\* and the full-text tab.  The library cannot read a file that is not there.
Transcribe ==
    /\ pc = "transcribe"
    /\ \/ /\ exists(temp_filename)
          /\ \E r \in Results : result' = r
          /\ trace' = trace \o <<Event("transcribe", TranscribeOptions),
                                  Event("transcribe_return", {})>>
          /\ messages' = Append(messages, [kind |-> "success", text |-> SuccessMessage])
          /\ seg_i' = 0
          /\ table_data' = <<>>
          /\ timestamp_text' = ""
          /\ pc' = "format"
          /\ UNCHANGED <<exc, outcome>>
       \/ /\ \E e \in TranscribeErrors :
                /\ exc' = e
                /\ trace' = trace \o <<Event("transcribe", TranscribeOptions), Raise(e)>>
          /\ outcome' = "transcribe_failed"
          /\ pc' = "except"
          /\ UNCHANGED <<result, messages, seg_i, table_data, timestamp_text>>
    /\ UNCHANGED <<ffmpeg_status, rendered, model_option, language_option,
                   uploaded_file, transcribe_button, model_cache, load_calls, files,
                   n_requests, temp_filename, model, in_flight>>

\* The loop body adding the new line in front of the text
FormatSegment_Prepend ==
    /\ pc = "format"
    /\ seg_i < Len(result.segments)
    /\ LET segment   == result.segments[seg_i + 1]
           start_fmt == format_timestamp(segment.start)
           end_fmt   == format_timestamp(segment.end)
       IN  /\ table_data' = Append(table_data,
                                   [start |-> start_fmt, end |-> end_fmt, text |-> segment.text])
           /\ timestamp_text' = FormatLine(start_fmt, end_fmt, segment.text) \o timestamp_text
    /\ seg_i' = seg_i + 1
    /\ UNCHANGED <<pc, ffmpeg_status, rendered, model_option, language_option,
                   uploaded_file, transcribe_button, model_cache, load_calls, files,
                   n_requests, temp_filename, model, exc, result, trace, messages,
                   outcome, in_flight>>

\* One pass of "for segment in result['segments']".
FormatSegment ==
    /\ pc = "format"
    /\ seg_i < Len(result.segments)
    /\ LET segment   == result.segments[seg_i + 1]
           start_fmt == format_timestamp(segment.start)
           end_fmt   == format_timestamp(segment.end)
       IN  /\ table_data' = Append(table_data,
                                   [start |-> start_fmt, end |-> end_fmt, text |-> segment.text])
           /\ timestamp_text' = timestamp_text \o FormatLine(start_fmt, end_fmt, segment.text)
    /\ seg_i' = seg_i + 1
    /\ UNCHANGED <<pc, ffmpeg_status, rendered, model_option, language_option,
                   uploaded_file, transcribe_button, model_cache, load_calls, files,
                   n_requests, temp_filename, model, exc, result, trace, messages,
                   outcome, in_flight>>

\* After the loop: the table and the two download buttons; any of these
\* calls may raise.
Display ==
    /\ pc = "format"
    /\ seg_i = Len(result.segments)
    /\ \/ /\ outcome' = "success"
          /\ trace' = Append(trace, Event("display", {}))
          /\ pc' = "finally"
          /\ UNCHANGED exc
       \/ /\ \E e \in DisplayErrors :
                /\ exc' = e
                /\ trace' = Append(trace, Raise(e))
          /\ outcome' = "display_failed"
          /\ pc' = "except"
    /\ UNCHANGED <<ffmpeg_status, rendered, model_option, language_option,
                   uploaded_file, transcribe_button, model_cache, load_calls, files,
                   n_requests, temp_filename, model, result, messages, seg_i,
                   table_data, timestamp_text, in_flight>>

\* The handler showing a fixed text, without str(e)
Except_Generic ==
    /\ pc = "except"
    /\ messages' = Append(messages, [kind |-> "error", text |-> ErrorPrefix])
    /\ exc' = None
    /\ trace' = Append(trace, Event("report", {}))
    /\ pc' = "finally"
    /\ UNCHANGED <<ffmpeg_status, rendered, model_option, language_option,
                   uploaded_file, transcribe_button, model_cache, load_calls, files,
                   n_requests, temp_filename, model, result, seg_i, table_data,
                   timestamp_text, outcome, in_flight>>

\* The handler trying the request once more after the first failure
Except_Retry ==
    /\ pc = "except"
    /\ messages' = Append(messages, [kind |-> "error", text |-> ErrorPrefix \o exc])
    /\ exc' = None
    /\ trace' = Append(trace, Event("report", {}))
    /\ pc' = IF Cardinality({i \in 1..Len(trace) : trace[i].op = "raise"}) < 2
             THEN "acquire" ELSE "finally"
    /\ UNCHANGED <<ffmpeg_status, rendered, model_option, language_option,
                   uploaded_file, transcribe_button, model_cache, load_calls, files,
                   n_requests, temp_filename, model, result, seg_i, table_data,
                   timestamp_text, outcome, in_flight>>

\* except Exception as e: st.error(f"...: {str(e)}")
Except ==
    /\ pc = "except"
    /\ messages' = Append(messages, [kind |-> "error", text |-> ErrorPrefix \o exc])
    /\ exc' = None
    /\ trace' = Append(trace, Event("report", {}))
    /\ pc' = "finally"
    /\ UNCHANGED <<ffmpeg_status, rendered, model_option, language_option,
                   uploaded_file, transcribe_button, model_cache, load_calls, files,
                   n_requests, temp_filename, model, result, seg_i, table_data,
                   timestamp_text, outcome, in_flight>>

\* The unlink placed in the except handler: no cleanup after a success
Finally_OnlyAfterFailure ==
    /\ pc = "finally"
    /\ files' = IF exists(temp_filename) /\ outcome # "success"
                THEN {f \in files : f.name # temp_filename}
                ELSE files
    /\ trace' = Append(trace, Event("cleanup", {}))
    /\ in_flight' = in_flight \ {n_requests}
    /\ pc' = "idle"
    /\ UNCHANGED <<ffmpeg_status, rendered, model_option, language_option,
                   uploaded_file, transcribe_button, model_cache, load_calls,
                   n_requests, temp_filename, model, exc, result, messages, seg_i,
                   table_data, timestamp_text, outcome>>

\* The finally block without the unlink
Finally_NoUnlink ==
    /\ pc = "finally"
    /\ trace' = Append(trace, Event("cleanup", {}))
    /\ in_flight' = in_flight \ {n_requests}
    /\ pc' = "idle"
    /\ UNCHANGED <<ffmpeg_status, rendered, model_option, language_option,
                   uploaded_file, transcribe_button, model_cache, load_calls, files,
                   n_requests, temp_filename, model, exc, result, messages, seg_i,
                   table_data, timestamp_text, outcome>>

\* finally: if os.path.exists(temp_filename): os.unlink(temp_filename)
Finally ==
    /\ pc = "finally"
    /\ files' = IF exists(temp_filename)
                THEN {f \in files : f.name # temp_filename}
                ELSE files
    /\ trace' = Append(trace, Event("cleanup", {}))
    /\ in_flight' = in_flight \ {n_requests}
    /\ pc' = "idle"
    /\ UNCHANGED <<ffmpeg_status, rendered, model_option, language_option,
                   uploaded_file, transcribe_button, model_cache, load_calls,
                   n_requests, temp_filename, model, exc, result, messages, seg_i,
                   table_data, timestamp_text, outcome>>

Next ==
    \/ OpenPage
    \/ SelectModel
    \/ SelectLanguage
    \/ UploadFile
    \/ ClickTranscribe
    \/ check_ffmpeg
    \/ Render
    \/ Persist
    \/ AcquireModel
    \/ Transcribe
    \/ FormatSegment
    \/ Display
    \/ Except
    \/ Finally

Spec == Init /\ [][Next]_vars

----------------------------------------------------------------------------
(* The formatting steps on their own: a request that has just got its      *)
(* result, for results drawn from a wider set than the request runs use.   *)

\* Offsets in milliseconds around the minute, hour and padding boundaries.
TimeInputs ==
    {h * 3600000 + m * 60000 + s * 1000 + f :
        h \in (0..MaxHours) \cup {100}, m \in {0, 1, 59},
        s \in {0, 1, 9, 10, 59}, f \in {0, 1, 500, 999}}

WideSegments == {Seg(t, t + d, "a") : t \in TimeInputs, d \in {0, 1500}}

SmallSegments == {Seg(0, 1000, "a"), Seg(1000, 2500, "b"), Seg(2500, 2500, "")}

RECURSIVE SeqsUpTo(_, _)
SeqsUpTo(S, n) ==
    IF n = 0 THEN {<<>>}
    ELSE LET shorter == SeqsUpTo(S, n - 1)
         IN  shorter \cup {Append(q, x) : q \in shorter, x \in S}

FormatInputs ==
    {[text |-> "x", segments |-> <<g>>] : g \in WideSegments}
    \cup {[text |-> "x", segments |-> q] : q \in SeqsUpTo(SmallSegments, MaxSegments)}

InitFormat ==
    /\ pc = "format"
    /\ ffmpeg_status = 0
    /\ rendered = {"model_option", "language_option", "uploaded_file", "transcribe_button"}
    /\ model_option = get_available_models[2]
    /\ language_option = language_options[2]
    /\ uploaded_file = [name |-> "talk.mp3", data |-> "ID3"]
    /\ transcribe_button = TRUE
    /\ model_cache = [m \in Models |->
                        IF m = get_available_models[2] THEN [size |-> m, serial |-> 1]
                        ELSE NoModel]
    /\ load_calls = [m \in Models |-> IF m = get_available_models[2] THEN 1 ELSE 0]
    /\ files = {[name |-> "tmp1.mp3", data |-> "ID3", complete |-> TRUE]}
    /\ n_requests = 1
    /\ temp_filename = "tmp1.mp3"
    /\ model = [size |-> get_available_models[2], serial |-> 1]
    /\ exc = None
    /\ result \in FormatInputs
    /\ trace = <<[op |-> "persist", exists |-> TRUE, kwargs |-> {}],
                 [op |-> "load", exists |-> TRUE, kwargs |-> {}],
                 [op |-> "resolved", exists |-> TRUE, kwargs |-> {}],
                 [op |-> "transcribe", exists |-> TRUE,
                  kwargs |-> {<<"language", language_options[2]>>}],
                 [op |-> "transcribe_return", exists |-> TRUE, kwargs |-> {}]>>
    /\ messages = <<[kind |-> "success", text |-> SuccessMessage]>>
    /\ seg_i = 0
    /\ table_data = <<>>
    /\ timestamp_text = ""
    /\ outcome = "none"
    /\ in_flight = {1}

NextFormat ==
    \/ FormatSegment
    \/ Display
    \/ Except
    \/ Finally

SpecFormat == InitFormat /\ [][NextFormat]_vars

----------------------------------------------------------------------------
(* Reading a formatted timestamp back. *)

IsDigit(c) == \E d \in 1..10 : Digits[d] = c

DigitValue(c) == (CHOOSE d \in 1..10 : Digits[d] = c) - 1

AllDigits(str) == \A i \in 1..Len(str) : IsDigit(SubSeq(str, i, i))

RECURSIVE ParseNat(_)
ParseNat(str) ==
    IF str = "" THEN 0
    ELSE 10 * ParseNat(SubSeq(str, 1, Len(str) - 1)) + DigitValue(SubSeq(str, Len(str), Len(str)))

\* str reads <hours>:MM:SS.mmm, hours of two digits or more without padding
\* beyond two, MM and SS below 60, and the fields add up to ms milliseconds.
ReadsAs(str, ms) ==
    /\ Len(str) >= 12
    /\ LET n  == Len(str)
           hh == SubSeq(str, 1, n - 10)
           mm == SubSeq(str, n - 8, n - 7)
           ss == SubSeq(str, n - 5, n - 4)
           ff == SubSeq(str, n - 2, n)
       IN  /\ SubSeq(str, n - 9, n - 9) = ":"
           /\ SubSeq(str, n - 6, n - 6) = ":"
           /\ SubSeq(str, n - 3, n - 3) = "."
           /\ AllDigits(hh) /\ AllDigits(mm) /\ AllDigits(ss) /\ AllDigits(ff)
           /\ Len(hh) > 2 => SubSeq(hh, 1, 1) # "0"
           /\ ParseNat(mm) \in 0..59
           /\ ParseNat(ss) \in 0..59
           /\ ParseNat(hh) * 3600000 + ParseNat(mm) * 60000
                + ParseNat(ss) * 1000 + ParseNat(ff) = ms

RECURSIVE ExpectedTranscript(_)
ExpectedTranscript(segs) ==
    IF segs = <<>> THEN ""
    ELSE "[" \o format_timestamp(Head(segs).start) \o " --> "
             \o format_timestamp(Head(segs).end) \o "] " \o Head(segs).text \o "\n"
             \o ExpectedTranscript(Tail(segs))

LoopDone == seg_i = Len(result.segments)

\* C6: the timestamped transcript is the concatenation, in the order the
\* segments were returned, of one line "[<start> --> <end>] <text>\n" per
\* segment handled so far; for the two segments {0,1,"a"},{1,2.5,"b"} it is
\* "[00:00:00.000 --> 00:00:01.000] a\n[00:00:01.000 --> 00:00:02.500] b\n",
\* and for no segments it is empty.
C6_TranscriptIsConcatenation ==
    /\ timestamp_text = ExpectedTranscript(SubSeq(result.segments, 1, seg_i))
    /\ Len(table_data) = seg_i
    /\ (LoopDone /\ result.segments = <<Seg(0, 1000, "a"), Seg(1000, 2500, "b")>>)
         => timestamp_text =
              "[00:00:00.000 --> 00:00:01.000] a\n[00:00:01.000 --> 00:00:02.500] b\n"
    /\ (LoopDone /\ result.segments = <<>>) => timestamp_text = ""

C6_Witness ==
    /\ LoopDone
    /\ result.segments = <<Seg(1000, 2500, "b"), Seg(0, 1000, "a")>>
    /\ timestamp_text =
         "[00:00:01.000 --> 00:00:02.500] b\n[00:00:00.000 --> 00:00:01.000] a\n"

\* C7: every formatted start and end reads <hours>:MM:SS.mmm with hours and
\* minutes padded to two digits, minutes and seconds below 60, three
\* decimals, and the fields adding up to the offset; 0 gives 00:00:00.000
\* and 3661.5 gives 01:01:01.500.
C7_TimestampFormat ==
    \A k \in 1..Len(table_data) :
        LET seg == result.segments[k]
            row == table_data[k]
        IN  /\ ReadsAs(row.start, seg.start)
            /\ ReadsAs(row.end, seg.end)
            /\ seg.start = 0 => row.start = "00:00:00.000"
            /\ seg.start = 3661500 => row.start = "01:01:01.500"

C7_Witness ==
    /\ Len(table_data) = 1
    /\ result.segments[1].start = 3661500
    /\ table_data[1].start = "01:01:01.500"
    /\ table_data[1].end = "01:01:03.000"

----------------------------------------------------------------------------
(* Properties of the request runs. *)

RequestPcs == {"persist", "acquire", "transcribe", "format", "except", "finally"}

CaughtOutcomes == {"success", "load_failed", "transcribe_failed", "display_failed"}

Count(op) == Cardinality({i \in 1..Len(trace) : trace[i].op = op})

Contains(str, part) ==
    \E i \in 1..(Len(str) - Len(part) + 1) : SubSeq(str, i, i + Len(part) - 1) = part

\* C1: once a request on an accepted upload has completed by success, by a
\* failed model load, by a failed transcribe or by a failure while showing
\* the result, the temp file it created is no longer on disk.
C1_TempFileRemoved ==
    (pc = "idle" /\ outcome \in CaughtOutcomes) =>
        /\ file_ext(uploaded_file.name) \in supported_types
        /\ Count("persist") = 1
        /\ temp_filename # None
        /\ \A f \in files : f.name # temp_filename

C1_Witness ==
    /\ pc = "idle"
    /\ outcome = "success"
    /\ n_requests = 2
    /\ temp_filename = "tmp2.mp4"
    /\ ~exists(temp_filename)

\* C2: an exception of the model load or of transcribe is caught in the
\* request: an error box holding the exception's text is shown, no exception
\* is left in flight, and the page still offers the button for a new request.
C2_FailureReported ==
    (outcome \in {"load_failed", "transcribe_failed"} /\ pc \in {"finally", "idle"}) =>
        /\ exc = None
        /\ \E i \in 1..Len(trace) :
              /\ trace[i].op = "raise"
              /\ \E e \in LoadErrors \cup TranscribeErrors :
                    /\ trace[i].kwargs = {<<"message", e>>}
                    /\ \E k \in 1..Len(messages) :
                          /\ messages[k].kind = "error"
                          /\ Contains(messages[k].text, e)
        /\ "transcribe_button" \in rendered
        /\ (pc = "idle" /\ n_requests < MaxRequests) => ENABLED ClickTranscribe

C2_Witness ==
    /\ pc = "idle"
    /\ outcome = "load_failed"
    /\ n_requests = 2
    /\ messages = <<[kind |-> "error", text |-> "Error occurred: CUDA out of memory"]>>

\* C3: in a run whose ffmpeg check failed, the page shows no uploader and no
\* button, and the run makes no request: no temp file, no model load, no
\* transcribe call.
C3_NoRequestWithoutFfmpeg ==
    (ffmpeg_status # NotProbed /\ ffmpeg_status # 0) =>
        /\ pc = "idle"
        /\ rendered = {}
        /\ ~ENABLED UploadFile
        /\ ~ENABLED ClickTranscribe
        /\ trace = <<>>
        /\ temp_filename = None
        /\ model = NoModel
        /\ result = NoResult
        /\ in_flight = {}

C3_Witness ==
    /\ ffmpeg_status = 32512
    /\ transcribe_button
    /\ uploaded_file # NoFile
    /\ pc = "idle"
    /\ trace = <<>>

\* C4: once a load for a size has succeeded, no later step replaces or drops
\* the cached instance of that size or runs the load for it again, and a
\* request for that size gets the cached instance.
C4_CachedModelReused ==
    /\ [][\A m \in Models :
            model_cache[m] # NoModel =>
                /\ model_cache'[m] = model_cache[m]
                /\ load_calls'[m] = load_calls[m]]_vars
    /\ [](pc = "transcribe" =>
            /\ model # NoModel
            /\ model.size = model_option
            /\ model = model_cache[model_option])

C4_Witness ==
    /\ pc = "transcribe"
    /\ n_requests = 3
    /\ Count("load") = 0
    /\ load_calls[model_option] = 1
    /\ model = [size |-> model_option, serial |-> 1]
    /\ \E m \in Models \ {model_option} : load_calls[m] >= 1

\* C5: the transcribe call carries a language argument exactly when a
\* language is selected, and then it is the selected one; with auto-detect
\* the call has no language argument at all.
C5_LanguageIffHint ==
    \A i \in 1..Len(trace) :
        trace[i].op = "transcribe" =>
            /\ language_option = "" => trace[i].kwargs = {}
            /\ language_option # "" => trace[i].kwargs = {<<"language", language_option>>}
            /\ language_option = "ja" => trace[i].kwargs = {<<"language", "ja">>}

C5_Witness ==
    /\ language_option = ""
    /\ \E i \in 1..Len(trace) : trace[i].op = "transcribe" /\ trace[i].kwargs = {}

C9_NoRetry ==
    /\ Count("load") <= 1
    /\ Count("transcribe") <= 1
    /\ Count("raise") <= 1
    /\ \A i, j \in 1..Len(trace) :
          (trace[i].op = "raise" /\ i < j) => trace[j].op \in {"report", "cleanup"}
    /\ (pc = "idle" /\ outcome \in {"load_failed", "transcribe_failed"}) =>
          /\ Count("report") = 1
          /\ trace[Len(trace)].op = "cleanup"
    /\ pc \in RequestPcs => transcribe_button

C9_Witness ==
    /\ pc = "idle"
    /\ outcome = "transcribe_failed"
    /\ Ops = <<"persist", "resolved", "transcribe", "raise", "report", "cleanup">>

\* C10: the steps of a request come in the order persist, acquire,
\* transcribe, format, cleanup: transcribe is called after the upload is
\* fully written and the model resolved, the temp file is on disk during
\* the whole of acquisition and transcribe, and it is removed only after
\* transcribe has returned or an exception has been raised.
C10_StepOrder ==
    /\ pc \in {"acquire", "transcribe"} =>
          \E f \in files :
              f.name = temp_filename /\ f.complete /\ f.data = uploaded_file.data
    /\ trace # <<>> => trace[1].op = "persist"
    /\ \A i \in 1..Len(trace) :
          /\ trace[i].op \in {"load", "resolved", "transcribe", "transcribe_return", "raise"}
                => trace[i].exists
          /\ trace[i].op = "transcribe" =>
                /\ \E j \in 1..(i - 1) : trace[j].op = "persist"
                /\ trace[i - 1].op = "resolved"
          /\ trace[i].op = "cleanup" =>
                /\ i = Len(trace)
                /\ \E j \in 1..(i - 1) : trace[j].op \in {"transcribe_return", "raise"}
    /\ table_data # <<>> => Count("transcribe_return") = 1
    /\ pc = "format" => Count("cleanup") = 0

C10_Witness ==
    /\ pc = "idle"
    /\ outcome = "success"
    /\ Len(table_data) = 2
    /\ Ops = <<"persist", "load", "resolved", "transcribe", "transcribe_return",
               "display", "cleanup">>

====
